---- MODULE Spec2Model ----
(***************************************************************************)
(* Shadow-mapping subsystem of the engine: the spot-light tile atlas       *)
(* (ShadowAtlas), the cascade split calculator (CascadedShadowMap) and     *)
(* the per-frame orchestrator (ShadowMapSystem).                           *)
(*                                                                         *)
(* Distances are integers; the split distances are kept multiplied by      *)
(* SplitScale so that lambda = l / LambdaDen and p = i / CSM_CASCADE_COUNT *)
(* are exact.  std::pow(maxDistance / nearPlane, i / 4) is evaluated       *)
(* exactly, on inputs whose ratio is the fourth power of a rational.       *)
(***************************************************************************)
EXTENDS Integers, Sequences, FiniteSets, TLC

VARIABLES
    m_AtlasSize,        \* ShadowAtlas::m_AtlasSize
    m_Tiles,            \* ShadowAtlas::m_Tiles
    m_CurrentFrame,     \* ShadowAtlas::m_CurrentFrame
    atlasHandles,       \* ShadowAtlas::m_DepthTexture and m_Framebuffer (0: none)
    m_Resolution,       \* CascadedShadowMap::m_Resolution
    csmStorage,         \* resolution the CSM depth texture array was allocated with
    m_SplitDistances,   \* CascadedShadowMap::m_SplitDistances (times SplitScale)
    m_Cascades,         \* CascadedShadowMap::m_Cascades
    m_Initialized,      \* ShadowMapSystem::m_Initialized
    m_Camera,           \* ShadowMapSystem::m_Camera (NoCamera: nullptr)
    m_Settings,         \* ShadowMapSystem::m_Settings
    m_ShadowCasters,    \* ShadowMapSystem::m_ShadowCasters
    m_CSMData,          \* ShadowMapSystem::m_CSMData
    m_SpotShadowData,   \* ShadowMapSystem::m_SpotShadowData
    m_SpotShadowCount,  \* ShadowMapSystem::m_SpotShadowCount
    m_CurrentLight,     \* m_CurrentLightDirection, m_CurrentShadowBias, ...
    m_Stats,            \* ShadowMapSystem::m_Stats
    m_FrameNumber,      \* ShadowMapSystem::m_FrameNumber
    m_DepthShader,      \* ShadowMapSystem::m_DepthShader (0: null, n: the n-th one created)
    m_SpotDepthShader,  \* ShadowMapSystem::m_SpotDepthShader, likewise
    ubo,                \* the contents of the buffer m_ShadowDataUBO
    gl,                 \* the OpenGL state the atlas and the CSM set
    glLog,              \* the GL commands issued by the last operation, in order
    call                \* the last operation: its name, arguments and return value

atlasVars == <<m_AtlasSize, m_Tiles, m_CurrentFrame, atlasHandles>>

csmVars == <<m_Resolution, csmStorage, m_SplitDistances, m_Cascades>>

sysVars == <<m_Initialized, m_Camera, m_Settings, m_ShadowCasters, m_CSMData,
             m_SpotShadowData, m_SpotShadowCount, m_CurrentLight, m_Stats,
             m_FrameNumber, m_DepthShader, m_SpotDepthShader, ubo>>

vars == <<atlasVars, csmVars, sysVars, gl, glLog, call>>

\* ------------------------------------------------------------------------
\* Program constants
\* ------------------------------------------------------------------------
defaultTileSize == 512

NONE == -1

CSM_CASCADE_COUNT == 4

MAX_SHADOW_CASTING_SPOT == 16

DEFAULT_SPOT_SHADOW_ATLAS_SIZE == 4096

\* The tile size RenderSpotShadows requests for every spot light.
SpotTileRequest == 512

DEFAULT_CSM_RESOLUTION == 2048

\* ------------------------------------------------------------------------
\* Bounds of the model
\* ------------------------------------------------------------------------
\* Frame numbers handed to ShadowAtlas::BeginFrame by a direct caller.
AtlasFrames == {0, 1}

\* Tile indices handed to FreeTile and BindForTile: the first and the last
\* tile, and the two nearest invalid indices.
TileIndices(tiles) == {-1, 0, Len(tiles) - 1, Len(tiles)}

\* Atlas sizes a ShadowAtlas is constructed with: 0, 1 and 4 tiles, with and
\* without a remainder of the division by the tile size.
AtlasSizes == {0, 300, 512, 1000, 1024}

\* Sizes requested from AllocateTile: one on each side of every bucket edge.
RequestedSizes == {256, 512, 513}

\* Light indices handed to AllocateTile.
LightIndices == {0, 1}

\* ------------------------------------------------------------------------
\* ShadowAtlas
\* ------------------------------------------------------------------------
IsFree(tile) == tile.LightIndex < 0

\* A grid whose columns are half a tile apart, so that neighbours overlap.
InitializeTilesHalfStride(atlasSize) ==
    LET tilesPerRow == atlasSize \div defaultTileSize
    IN  [k \in 1..(tilesPerRow * tilesPerRow) |->
            [X |-> ((k - 1) % tilesPerRow) * (defaultTileSize \div 2),
             Y |-> ((k - 1) \div tilesPerRow) * defaultTileSize,
             Size |-> defaultTileSize,
             LightIndex |-> -1,
             LastUsedFrame |-> 0]]

\* The tile grid, row by row: tile k of the vector is column k % tilesPerRow
\* of row k / tilesPerRow.
InitializeTiles(atlasSize) ==
    LET tilesPerRow == atlasSize \div defaultTileSize
    IN  [k \in 1..(tilesPerRow * tilesPerRow) |->
            [X |-> ((k - 1) % tilesPerRow) * defaultTileSize,
             Y |-> ((k - 1) \div tilesPerRow) * defaultTileSize,
             Size |-> defaultTileSize,
             LightIndex |-> -1,
             LastUsedFrame |-> 0]]

\* The comparisons made strict.
QuantizeTileSizeStrict(size) ==
    IF size < 256 THEN 256
    ELSE IF size < 512 THEN 512
    ELSE 1024

QuantizeTileSize(size) ==
    IF size <= 256 THEN 256
    ELSE IF size <= 512 THEN 512
    ELSE 1024

\* Indices are those of the C++ vector (0-based); tile i is m_Tiles[i + 1].
TileAt(tiles, i) == tiles[i + 1]

ValidIndex(tiles, i) == i >= 0 /\ i < Len(tiles)

\* A search that takes the first tile large enough, owned or not.
FindFreeTileAnyOwner(tiles, size) ==
    LET hits == {i \in 0..(Len(tiles) - 1) : TileAt(tiles, i).Size >= size}
    IN  IF hits = {} THEN NONE
        ELSE CHOOSE i \in hits : \A j \in hits : i <= j

FindFreeTile(tiles, size) ==
    LET hits == {i \in 0..(Len(tiles) - 1) :
                    IsFree(TileAt(tiles, i)) /\ TileAt(tiles, i).Size >= size}
    IN  IF hits = {} THEN NONE
        ELSE CHOOSE i \in hits : \A j \in hits : i <= j

\* The scan keeps the first tile whose LastUsedFrame is below every earlier
\* candidate's, starting from oldestFrame = m_CurrentFrame.
RECURSIVE LRUScan(_, _, _, _, _)
LRUScan(tiles, size, i, oldestFrame, lruIndex) ==
    IF i >= Len(tiles) THEN lruIndex
    ELSE IF TileAt(tiles, i).Size >= size
            /\ TileAt(tiles, i).LastUsedFrame < oldestFrame
         THEN LRUScan(tiles, size, i + 1, TileAt(tiles, i).LastUsedFrame, i)
         ELSE LRUScan(tiles, size, i + 1, oldestFrame, lruIndex)

\* An atlas that never evicts.
FindLRUTileNever(tiles, currentFrame, size) == NONE

FindLRUTile(tiles, currentFrame, size) ==
    LRUScan(tiles, size, 0, currentFrame, NONE)

FindOrEvictTile(tiles, currentFrame, size) ==
    LET freeIndex == FindFreeTile(tiles, size)
    IN  IF freeIndex >= 0 THEN freeIndex
        ELSE FindLRUTile(tiles, currentFrame, size)

\* An allocation that cuts the tile down to the size asked for.
AllocateTileOpShrinking(tiles, currentFrame, requestedSize, lightIndex) ==
    LET size == QuantizeTileSize(requestedSize)
        tileIndex == FindOrEvictTile(tiles, currentFrame, size)
    IN  IF tileIndex < 0
        THEN [Tiles |-> tiles, Ret |-> NONE]
        ELSE [Tiles |-> [tiles EXCEPT ![tileIndex + 1].LightIndex = lightIndex,
                                      ![tileIndex + 1].LastUsedFrame = currentFrame,
                                      ![tileIndex + 1].Size = size],
              Ret |-> tileIndex]

\* The tile table and the return value of AllocateTile.
AllocateTileOp(tiles, currentFrame, requestedSize, lightIndex) ==
    LET size == QuantizeTileSize(requestedSize)
        tileIndex == FindOrEvictTile(tiles, currentFrame, size)
    IN  IF tileIndex < 0
        THEN [Tiles |-> tiles, Ret |-> NONE]
        ELSE [Tiles |-> [tiles EXCEPT ![tileIndex + 1].LightIndex = lightIndex,
                                      ![tileIndex + 1].LastUsedFrame = currentFrame],
              Ret |-> tileIndex]

\* A release that gives up the ownership and keeps the frame of last use.
FreeTileOpKeepingFrame(tiles, tileIndex) ==
    IF ~ValidIndex(tiles, tileIndex) THEN tiles
    ELSE [tiles EXCEPT ![tileIndex + 1].LightIndex = -1]

FreeTileOp(tiles, tileIndex) ==
    IF ~ValidIndex(tiles, tileIndex) THEN tiles
    ELSE [tiles EXCEPT ![tileIndex + 1].LightIndex = -1,
                       ![tileIndex + 1].LastUsedFrame = 0]

FreeAllTilesOp(tiles) ==
    [k \in 1..Len(tiles) |-> [tiles[k] EXCEPT !.LightIndex = -1, !.LastUsedFrame = 0]]

TileRect(tile) == <<tile.X, tile.Y, tile.Size, tile.Size>>

\* A bind that sets the viewport and leaves the scissor rectangle alone.
BindForTileGLViewportOnly(g, tiles, tileIndex) ==
    IF ~ValidIndex(tiles, tileIndex) THEN g
    ELSE [g EXCEPT !.Framebuffer = "atlas",
                   !.Viewport = TileRect(TileAt(tiles, tileIndex)),
                   !.ScissorTest = TRUE]

\* glBindFramebuffer, glViewport, glEnable(GL_SCISSOR_TEST), glScissor.
BindForTileGL(g, tiles, tileIndex) ==
    IF ~ValidIndex(tiles, tileIndex) THEN g
    ELSE [g EXCEPT !.Framebuffer = "atlas",
                   !.Viewport = TileRect(TileAt(tiles, tileIndex)),
                   !.ScissorTest = TRUE,
                   !.Scissor = TileRect(TileAt(tiles, tileIndex))]

BindForTileOp(tiles, currentFrame, tileIndex) ==
    IF ~ValidIndex(tiles, tileIndex) THEN tiles
    ELSE [tiles EXCEPT ![tileIndex + 1].LastUsedFrame = currentFrame]

AtlasUnbindGL(g) == [g EXCEPT !.Framebuffer = "default", !.ScissorTest = FALSE]

\* ClearTile: the scissor rectangle of the tile is left set, the scissor test
\* disabled and the default framebuffer bound.
ClearTileGL(g, tiles, tileIndex) ==
    IF ~ValidIndex(tiles, tileIndex) THEN g
    ELSE [g EXCEPT !.Framebuffer = "default",
                   !.ScissorTest = FALSE,
                   !.Scissor = TileRect(TileAt(tiles, tileIndex))]

GetAllocatedTileCount(tiles) ==
    Cardinality({k \in 1..Len(tiles) : ~IsFree(tiles[k])})

GetFreeTileCount(tiles) == Len(tiles) - GetAllocatedTileCount(tiles)

\* ------------------------------------------------------------------------
\* CascadedShadowMap
\* ------------------------------------------------------------------------
\* lambda is a number of quarters, p = i / CSM_CASCADE_COUNT; a split distance
\* d is held as d * SplitScale.
LambdaDen == CSM_CASCADE_COUNT

SplitScale == LambdaDen * CSM_CASCADE_COUNT

\* Largest root of a distance of the model (6 ^ 4 = 1296).
MaxRoot == 6

RECURSIVE GCD(_, _)
GCD(a, b) == IF b = 0 THEN a ELSE GCD(b, a % b)

\* The CSM_CASCADE_COUNT-th root of x, x being such a power.
Root(x) == CHOOSE r \in 0..MaxRoot : r ^ CSM_CASCADE_COUNT = x

\* The ratio taken upside down: nearPlane * (nearPlane / maxDistance) ^ p.
LogSplitInverted(nearPlane, maxDistance, i) ==
    LET g == GCD(maxDistance, nearPlane)
        rn == Root(maxDistance \div g)
        rd == Root(nearPlane \div g)
    IN  (nearPlane * (rd ^ i)) \div (rn ^ i)

\* nearPlane * std::pow(maxDistance / nearPlane, i / CSM_CASCADE_COUNT)
LogSplit(nearPlane, maxDistance, i) ==
    LET g == GCD(maxDistance, nearPlane)
        rn == Root(maxDistance \div g)
        rd == Root(nearPlane \div g)
    IN  (nearPlane * (rn ^ i)) \div (rd ^ i)

\* (nearPlane + (maxDistance - nearPlane) * p) * CSM_CASCADE_COUNT
LinSplitN(nearPlane, maxDistance, i) ==
    CSM_CASCADE_COUNT * nearPlane + (maxDistance - nearPlane) * i

\* m_SplitDistances[i] is element i + 1 of the sequence.
CalculateCascadeSplits(nearPlane, maxDistance, lambda) ==
    [k \in 1..(CSM_CASCADE_COUNT + 1) |->
        IF k = 1 THEN nearPlane * SplitScale
        ELSE lambda * CSM_CASCADE_COUNT * LogSplit(nearPlane, maxDistance, k - 1)
             + (LambdaDen - lambda) * LinSplitN(nearPlane, maxDistance, k - 1)]

Min2(a, b) == IF a <= b THEN a ELSE b

Max2(a, b) == IF a >= b THEN a ELSE b

\* A stabilization that snaps each cascade against the one computed before it.
CalculateCascadeMatricesFromPrevious(camera, lightDir, resolution, splits) ==
    [c \in 1..CSM_CASCADE_COUNT |->
        [ViewProjectionMatrix |-> <<camera, splits[c], splits[c + 1], lightDir, resolution,
                                    m_Cascades[c].ViewProjectionMatrix>>,
         SplitNear |-> splits[c],
         SplitFar |-> splits[c + 1],
         WorldBounds |-> [Min |-> Min2(splits[c], splits[c + 1]),
                          Max |-> Max2(splits[c], splits[c + 1])]]]

\* A matrix is held as the tuple of the values it is computed from.  The world
\* AABB of a cascade is held as its extent along the view axis, for a light
\* perpendicular to that axis.
CalculateCascadeMatrices(camera, lightDir, resolution, splits) ==
    [c \in 1..CSM_CASCADE_COUNT |->
        [ViewProjectionMatrix |-> <<camera, splits[c], splits[c + 1], lightDir, resolution>>,
         SplitNear |-> splits[c],
         SplitFar |-> splits[c + 1],
         WorldBounds |-> [Min |-> Min2(splits[c], splits[c + 1]),
                          Max |-> Max2(splits[c], splits[c + 1])]]]

\* The near plane read back from the camera's projection matrix.
NearPlaneOf(camera) == camera.Near

CsmUpdateOp(camera, lightDirection, maxDistance, lambda, resolution) ==
    LET splits == CalculateCascadeSplits(NearPlaneOf(camera), maxDistance, lambda)
    IN  [SplitDistances |-> splits,
         Cascades |-> CalculateCascadeMatrices(camera, lightDirection, resolution, splits)]

\* m_Resolution, the storage of the texture array, and whether the resources
\* were deleted and created again.
ResizeOp(current, storage, resolution) ==
    IF resolution = current
    THEN [Resolution |-> current, Storage |-> storage, Reallocated |-> FALSE]
    ELSE [Resolution |-> resolution, Storage |-> resolution, Reallocated |-> TRUE]

\* texelSize = 1 / m_Resolution is held as <<1, m_Resolution>>; the fade start
\* 0.9 * d as <<9 * d, 10>>.
FillGPUData(splits, cascades, resolution, softness, bias, normalBias) ==
    [Cascades |-> [c \in 1..CSM_CASCADE_COUNT |->
                      [ViewProjection |-> cascades[c].ViewProjectionMatrix,
                       SplitDepthBias |-> <<splits[c + 1], <<1, resolution>>, bias, normalBias>>]],
     CascadeSplitDepths |-> [c \in 1..CSM_CASCADE_COUNT |-> splits[c + 1]],
     ShadowParams |-> <<softness, splits[CSM_CASCADE_COUNT + 1],
                        <<9 * splits[CSM_CASCADE_COUNT + 1], 10>>, 1>>]

\* ------------------------------------------------------------------------
\* ShadowMapSystem: the stages of a frame
\* ------------------------------------------------------------------------
\* One command of the log of a frame: a GL call, or a call on the atlas or on
\* the cascaded shadow map.
Cmd(cmd, target, index, arg) ==
    [cmd |-> cmd, target |-> target, index |-> index, arg |-> arg]

\* AABB::Intersects along the view axis.
Intersects(a, b) == a.Min <= b.Max /\ a.Max >= b.Min

GatherShadowCasters(registry) ==
    LET Casts(e) == e.CastShadows /\ e.Visible /\ e.VAO
        kept == SelectSeq(registry.Renderables, Casts)
    IN  [k \in 1..Len(kept) |-> [Entity |-> kept[k].Entity,
                                 WorldBounds |-> kept[k].WorldBounds]]

\* A search that goes on after a hit: the last such light of the view.
LastShadowLight(dirLights) ==
    LET hits == {k \in 1..Len(dirLights) :
                    dirLights[k].Enabled /\ dirLights[k].CastShadows}
    IN  IF hits = {} THEN 0 ELSE CHOOSE k \in hits : \A j \in hits : k >= j

\* Position in the view of the first enabled, shadow-casting directional
\* light; 0 when there is none.
FirstShadowLight(dirLights) ==
    LET hits == {k \in 1..Len(dirLights) :
                    dirLights[k].Enabled /\ dirLights[k].CastShadows}
    IN  IF hits = {} THEN 0 ELSE CHOOSE k \in hits : \A j \in hits : k <= j

\* A cascade that draws every caster of the snapshot.
CascadeDrawsNoCull(cascadeInfo, cascade, casters) ==
    [k \in 1..Len(casters) |-> Cmd("glDrawElements", "csm", cascade, casters[k].Entity)]

\* The draws of one cascade: one per caster whose bounds intersect the
\* cascade's world bounds, in the order of the snapshot.
CascadeDraws(cascadeInfo, cascade, casters) ==
    LET Hit(c) == Intersects(cascadeInfo.WorldBounds, c.WorldBounds)
        kept == SelectSeq(casters, Hit)
    IN  [k \in 1..Len(kept) |-> Cmd("glDrawElements", "csm", cascade, kept[k].Entity)]

RECURSIVE CascadePasses(_, _, _)
\* A loop that leaves out a cascade none of the casters reaches.
CascadePassesSkippingEmpty(cascades, cascade, casters) ==
    IF cascade >= CSM_CASCADE_COUNT THEN <<>>
    ELSE (IF CascadeDraws(cascades[cascade + 1], cascade, casters) = <<>>
          THEN <<>>
          ELSE <<Cmd("BindForCascade", "csm", cascade, 0), Cmd("glClear", "csm", cascade, 0)>>
               \o CascadeDraws(cascades[cascade + 1], cascade, casters))
         \o CascadePasses(cascades, cascade + 1, casters)

CascadePasses(cascades, cascade, casters) ==
    IF cascade >= CSM_CASCADE_COUNT THEN <<>>
    ELSE <<Cmd("BindForCascade", "csm", cascade, 0), Cmd("glClear", "csm", cascade, 0)>>
         \o CascadeDraws(cascades[cascade + 1], cascade, casters)
         \o CascadePasses(cascades, cascade + 1, casters)

CountCmd(log, cmd) == Cardinality({k \in 1..Len(log) : log[k].cmd = cmd})

\* The state s after RenderDirectionalShadows.
RenderDirectionalShadows(s, registry) ==
    LET k == FirstShadowLight(registry.DirLights)
        foundLight == k > 0
        light == registry.DirLights[k]
        rs == IF foundLight
              THEN ResizeOp(s.Resolution, s.Storage, light.ShadowResolution)
              ELSE [Resolution |-> s.Resolution, Storage |-> s.Storage,
                    Reallocated |-> FALSE]
        s1 == IF foundLight
              THEN [s EXCEPT !.CurrentLight = [Direction |-> light.Direction,
                                               ShadowBias |-> light.ShadowBias,
                                               NormalBias |-> light.NormalBias,
                                               ShadowSoftness |-> light.ShadowSoftness],
                             !.Resolution = rs.Resolution,
                             !.Storage = rs.Storage,
                             !.Settings.CascadeSplitLambda = light.CascadeSplitLambda,
                             !.Log = IF rs.Reallocated
                                     THEN @ \o <<Cmd("glTextureStorage3D", "csm",
                                                     0, rs.Resolution)>>
                                     ELSE @]
              ELSE s
    IN  IF ~foundLight \/ s1.Casters = <<>>
        THEN [s1 EXCEPT !.CSMData.ShadowParams[4] = 0]
        ELSE LET u == CsmUpdateOp(s1.Camera, s1.CurrentLight.Direction,
                                  s1.Settings.MaxShadowDistance,
                                  s1.Settings.CascadeSplitLambda, s1.Resolution)
                 passes == CascadePasses(u.Cascades, 0, s1.Casters)
             IN  [s1 EXCEPT !.SplitDistances = u.SplitDistances,
                            !.Cascades = u.Cascades,
                            !.Log = @ \o passes \o <<Cmd("CsmUnbind", "csm", 0, 0)>>,
                            !.GL = [@ EXCEPT !.Framebuffer = "default",
                                             !.Viewport = <<0, 0, s1.Resolution,
                                                            s1.Resolution>>],
                            !.Stats.ShadowCastersRendered =
                                @ + CountCmd(passes, "glDrawElements"),
                            !.Stats.CascadesRendered = @ + CSM_CASCADE_COUNT]

\* The draws into one spot light's tile: a caster is skipped when the distance
\* from its centre to the light exceeds 1.5 * Range (2 * distance > 3 * Range).
Abs(x) == IF x < 0 THEN -x ELSE x

SpotDraws(light, count, casters) ==
    LET Near(c) == ~(Abs(c.WorldBounds.Min + c.WorldBounds.Max - 2 * light.Position)
                        > 3 * light.Range)
        kept == SelectSeq(casters, Near)
    IN  [k \in 1..Len(kept) |-> Cmd("glDrawElements", "spot", count, kept[k].Entity)]

\* ShadowAtlasTile::GetScaleOffset: (Size, Size, X, Y) / atlasSize.
GetTileScaleOffset(tiles, atlasSize, tileIndex) ==
    IF ~ValidIndex(tiles, tileIndex) THEN <<0, 0, 0, 0, 1>>
    ELSE <<TileAt(tiles, tileIndex).Size, TileAt(tiles, tileIndex).Size,
           TileAt(tiles, tileIndex).X, TileAt(tiles, tileIndex).Y, atlasSize>>

\* The loop of RenderSpotShadows over the view of spot lights, from light k.
RECURSIVE SpotLoop(_, _, _)

\* A loop that gives up at the first failed allocation.
SpotLoopStopAtFailure(s, lights, k) ==
    IF k > Len(lights) THEN s
    ELSE IF s.SpotShadowCount >= MAX_SHADOW_CASTING_SPOT THEN s
    ELSE IF ~lights[k].Enabled \/ ~lights[k].CastShadows THEN SpotLoop(s, lights, k + 1)
    ELSE LET a == AllocateTileOp(s.Tiles, s.CurrentFrame, SpotTileRequest,
                                 s.SpotShadowCount)
             allocated == <<Cmd("AllocateTile", "spot", a.Ret, s.SpotShadowCount)>>
         IN  IF a.Ret < 0
             THEN [s EXCEPT !.Log = @ \o allocated]
             ELSE LET gpuData ==
                          [ViewProjection |-> <<lights[k].Position, lights[k].Direction,
                                                lights[k].OuterCutOff, lights[k].Range>>,
                           AtlasScaleOffset |->
                               GetTileScaleOffset(a.Tiles, s.AtlasSize, a.Ret),
                           ShadowParams |-> <<1, 10, 1, 1>>]
                  IN  SpotLoop(
                        [s EXCEPT
                           !.Tiles = BindForTileOp(a.Tiles, s.CurrentFrame, a.Ret),
                           !.GL = BindForTileGL(@, a.Tiles, a.Ret),
                           !.Log = @ \o allocated
                                     \o <<Cmd("BindForTile", "spot", a.Ret, s.SpotShadowCount),
                                          Cmd("glClear", "spot", a.Ret, s.SpotShadowCount)>>
                                     \o SpotDraws(lights[k], s.SpotShadowCount, s.Casters),
                           !.SpotShadowData = Append(@, gpuData),
                           !.SpotShadowCount = @ + 1,
                           !.Stats.SpotShadowsRendered = @ + 1],
                        lights, k + 1)

SpotLoop(s, lights, k) ==
    IF k > Len(lights) THEN s
    ELSE IF s.SpotShadowCount >= MAX_SHADOW_CASTING_SPOT THEN s
    ELSE IF ~lights[k].Enabled \/ ~lights[k].CastShadows THEN SpotLoop(s, lights, k + 1)
    ELSE LET a == AllocateTileOp(s.Tiles, s.CurrentFrame, SpotTileRequest,
                                 s.SpotShadowCount)
             allocated == <<Cmd("AllocateTile", "spot", a.Ret, s.SpotShadowCount)>>
         IN  IF a.Ret < 0
             THEN SpotLoop([s EXCEPT !.Log = @ \o allocated], lights, k + 1)
             ELSE LET gpuData ==
                          [ViewProjection |-> <<lights[k].Position, lights[k].Direction,
                                                lights[k].OuterCutOff, lights[k].Range>>,
                           AtlasScaleOffset |->
                               GetTileScaleOffset(a.Tiles, s.AtlasSize, a.Ret),
                           ShadowParams |-> <<1, 10, 1, 1>>]
                  IN  SpotLoop(
                        [s EXCEPT
                           !.Tiles = BindForTileOp(a.Tiles, s.CurrentFrame, a.Ret),
                           !.GL = BindForTileGL(@, a.Tiles, a.Ret),
                           !.Log = @ \o allocated
                                     \o <<Cmd("BindForTile", "spot", a.Ret, s.SpotShadowCount),
                                          Cmd("glClear", "spot", a.Ret, s.SpotShadowCount)>>
                                     \o SpotDraws(lights[k], s.SpotShadowCount, s.Casters),
                           !.SpotShadowData = Append(@, gpuData),
                           !.SpotShadowCount = @ + 1,
                           !.Stats.SpotShadowsRendered = @ + 1],
                        lights, k + 1)

\* A spot pass that leaves its last tile bound.
RenderSpotShadowsNoUnbind(s, registry) ==
    IF s.Casters = <<>> THEN s
    ELSE SpotLoop([s EXCEPT !.SpotShadowData = <<>>, !.SpotShadowCount = 0],
                  registry.SpotLights, 1)

\* The state s after RenderSpotShadows.
RenderSpotShadows(s, registry) ==
    IF s.Casters = <<>> THEN s
    ELSE LET t == SpotLoop([s EXCEPT !.SpotShadowData = <<>>, !.SpotShadowCount = 0],
                           registry.SpotLights, 1)
         IN  [t EXCEPT !.GL = AtlasUnbindGL(@),
                       !.Log = @ \o <<Cmd("AtlasUnbind", "spot", 0, 0)>>]

\* sizeof(GPUCascadedShadowData), sizeof(GPUSpotShadowData), sizeof(glm::ivec4)
SizeofGPUCascadedShadowData == CSM_CASCADE_COUNT * 80 + 16 + 16

SizeofGPUSpotShadowData == 64 + 16 + 16

SizeofIVec4 == 16

\* The state s after UploadShadowData: the three glNamedBufferSubData writes.
UploadShadowData(s) ==
    LET filled == FillGPUData(s.SplitDistances, s.Cascades, s.Resolution,
                              s.CurrentLight.ShadowSoftness, s.CurrentLight.ShadowBias,
                              s.CurrentLight.NormalBias)
        spotOffset == SizeofGPUCascadedShadowData
        countsOffset == SizeofGPUCascadedShadowData
                        + MAX_SHADOW_CASTING_SPOT * SizeofGPUSpotShadowData
    IN  [s EXCEPT
           !.CSMData = filled,
           !.UBO = [CSM |-> filled,
                    SpotShadows |-> [k \in 1..Max2(s.SpotShadowCount,
                                                   Len(s.UBO.SpotShadows)) |->
                                        IF k <= s.SpotShadowCount
                                        THEN s.SpotShadowData[k]
                                        ELSE s.UBO.SpotShadows[k]],
                    ShadowCounts |-> <<s.SpotShadowCount, 0, 0, 0>>,
                    Size |-> s.UBO.Size],
           !.Log = @ \o <<Cmd("glNamedBufferSubData", "ubo", 0,
                              SizeofGPUCascadedShadowData)>>
                     \o (IF s.SpotShadowCount > 0
                         THEN <<Cmd("glNamedBufferSubData", "ubo", spotOffset,
                                    s.SpotShadowCount * SizeofGPUSpotShadowData)>>
                         ELSE <<>>)
                     \o <<Cmd("glNamedBufferSubData", "ubo", countsOffset, SizeofIVec4)>>]

\* ------------------------------------------------------------------------
\* Values of storage that was never written
\* ------------------------------------------------------------------------
\* What an indeterminate number may read as.
Indeterminate == {0, 1}

NoCamera == [Near |-> 0]

IndeterminateCascades(g) ==
    [c \in 1..CSM_CASCADE_COUNT |->
        [ViewProjectionMatrix |-> <<NoCamera, g, g, "indeterminate", g>>,
         SplitNear |-> g, SplitFar |-> g, WorldBounds |-> [Min |-> g, Max |-> g]]]

IndeterminateSplits(g) == [k \in 1..(CSM_CASCADE_COUNT + 1) |-> g]

\* A GPUCascadedShadowData nothing was stored in: only ShadowParams is kept.
IndeterminateCSMData(g) ==
    [Cascades |-> <<>>, CascadeSplitDepths |-> <<>>, ShadowParams |-> <<g, g, <<g, 10>>, g>>]

\* The buffer as glNamedBufferStorage leaves it.  SpotShadows holds the slots
\* written so far; the slots after them were never written.
\* A buffer without the room for the counts vector.
UboSizeWithoutCounts ==
    SizeofGPUCascadedShadowData + MAX_SHADOW_CASTING_SPOT * SizeofGPUSpotShadowData

\* uboSize of CreateUBOs.
UboSize ==
    SizeofGPUCascadedShadowData + MAX_SHADOW_CASTING_SPOT * SizeofGPUSpotShadowData
    + SizeofIVec4

\* The buffer as glNamedBufferStorage leaves it: of size UboSize, its contents
\* never written.
IndeterminateUBO(g) ==
    [CSM |-> IndeterminateCSMData(g), SpotShadows |-> <<>>, ShadowCounts |-> <<g, g, g, g>>,
     Size |-> UboSize]

InitialGL ==
    [Framebuffer |-> "default", Viewport |-> <<0, 0, 0, 0>>,
     ScissorTest |-> FALSE, Scissor |-> <<0, 0, 0, 0>>]

\* ShadowSettings as declared; MaxShadowDistance 200.0 is DefaultMaxShadowDistance
\* distance units, CascadeSplitLambda 0.75 is DefaultLambda quarters.
DefaultLambda == 3

DefaultMaxShadowDistance == 1296

DefaultSettings ==
    [Enabled |-> TRUE,
     CascadeResolution |-> DEFAULT_CSM_RESOLUTION,
     CascadeSplitLambda |-> DefaultLambda,
     MaxShadowDistance |-> DefaultMaxShadowDistance,
     SpotShadowAtlasSize |-> DEFAULT_SPOT_SHADOW_ATLAS_SIZE]

\* m_CurrentLightDirection (0, -1, 0), m_CurrentShadowBias 0.0005,
\* m_CurrentNormalBias 0.02 (in 1/10000), m_CurrentShadowSoftness 1.0.
DefaultCurrentLight ==
    [Direction |-> "down", ShadowBias |-> 5, NormalBias |-> 200, ShadowSoftness |-> 1]

ZeroStats ==
    [ShadowCastersRendered |-> 0, CascadesRendered |-> 0, SpotShadowsRendered |-> 0]

\* The members of a ShadowMapSystem that has not created its CSM and atlas.
SystemUnbuilt ==
    /\ m_Initialized = FALSE
    /\ m_Camera = NoCamera
    /\ m_ShadowCasters = <<>>
    /\ m_SpotShadowData = <<>>
    /\ m_SpotShadowCount = 0
    /\ m_CurrentLight = DefaultCurrentLight
    /\ m_Stats = ZeroStats
    /\ m_FrameNumber = 0
    /\ m_DepthShader = 0
    /\ m_SpotDepthShader = 0
    /\ ubo = [IndeterminateUBO(0) EXCEPT !.Size = 0]

\* The names glCreateTextures and glCreateFramebuffers hand to the atlas.
AtlasCreateResources ==
    [DepthTexture |-> 1, Framebuffer |-> 1]

NoAtlas ==
    /\ m_AtlasSize = 0
    /\ m_Tiles = <<>>
    /\ m_CurrentFrame = 0
    /\ atlasHandles = [DepthTexture |-> 0, Framebuffer |-> 0]

NoCsm ==
    /\ m_Resolution = 0
    /\ csmStorage = 0
    /\ m_SplitDistances = IndeterminateSplits(0)
    /\ m_Cascades = IndeterminateCascades(0)

\* ------------------------------------------------------------------------
\* The atlas driven through its public interface
\* ------------------------------------------------------------------------
AtlasInit ==
    /\ m_AtlasSize \in AtlasSizes
    /\ m_Tiles = InitializeTiles(m_AtlasSize)
    /\ m_CurrentFrame = 0
    /\ atlasHandles = AtlasCreateResources
    /\ NoCsm
    /\ SystemUnbuilt
    /\ m_Settings = DefaultSettings
    /\ m_CSMData = IndeterminateCSMData(0)
    /\ gl = InitialGL
    /\ glLog = <<>>
    /\ call = [op |-> "ShadowAtlas", args |-> <<m_AtlasSize>>, ret |-> 0]

AllocateTile(requestedSize, lightIndex) ==
    \E r \in {AllocateTileOp(m_Tiles, m_CurrentFrame, requestedSize, lightIndex)} :
        /\ m_Tiles' = r.Tiles
        /\ call' = [op |-> "AllocateTile", args |-> <<requestedSize, lightIndex>>,
                    ret |-> r.Ret]
        /\ UNCHANGED <<m_AtlasSize, atlasHandles, m_CurrentFrame, csmVars, sysVars, gl, glLog>>

FreeTile(tileIndex) ==
    /\ m_Tiles' = FreeTileOp(m_Tiles, tileIndex)
    /\ call' = [op |-> "FreeTile", args |-> <<tileIndex>>, ret |-> 0]
    /\ UNCHANGED <<m_AtlasSize, atlasHandles, m_CurrentFrame, csmVars, sysVars, gl, glLog>>

FreeAllTiles ==
    /\ m_Tiles' = FreeAllTilesOp(m_Tiles)
    /\ call' = [op |-> "FreeAllTiles", args |-> <<>>, ret |-> 0]
    /\ UNCHANGED <<m_AtlasSize, atlasHandles, m_CurrentFrame, csmVars, sysVars, gl, glLog>>

BeginFrame(frameNumber) ==
    /\ m_CurrentFrame' = frameNumber
    /\ call' = [op |-> "BeginFrame", args |-> <<frameNumber>>, ret |-> 0]
    /\ UNCHANGED <<m_AtlasSize, atlasHandles, m_Tiles, csmVars, sysVars, gl, glLog>>

BindForTile(tileIndex) ==
    /\ gl' = BindForTileGL(gl, m_Tiles, tileIndex)
    /\ m_Tiles' = BindForTileOp(m_Tiles, m_CurrentFrame, tileIndex)
    /\ call' = [op |-> "BindForTile", args |-> <<tileIndex>>, ret |-> 0]
    /\ UNCHANGED <<m_AtlasSize, atlasHandles, m_CurrentFrame, csmVars, sysVars, glLog>>

ClearTile(tileIndex) ==
    /\ gl' = ClearTileGL(gl, m_Tiles, tileIndex)
    /\ call' = [op |-> "ClearTile", args |-> <<tileIndex>>, ret |-> 0]
    /\ UNCHANGED <<atlasVars, csmVars, sysVars, glLog>>

Unbind ==
    /\ gl' = AtlasUnbindGL(gl)
    /\ call' = [op |-> "Unbind", args |-> <<>>, ret |-> 0]
    /\ UNCHANGED <<atlasVars, csmVars, sysVars, glLog>>

AtlasNext ==
    \/ \E s \in RequestedSizes, l \in LightIndices : AllocateTile(s, l)
    \/ \E i \in TileIndices(m_Tiles) : FreeTile(i)
    \/ FreeAllTiles
    \/ \E n \in AtlasFrames : BeginFrame(n)
    \/ \E i \in TileIndices(m_Tiles) : BindForTile(i)
    \/ \E i \in TileIndices(m_Tiles) : ClearTile(i)
    \/ Unbind

AtlasSpec == AtlasInit /\ [][AtlasNext]_vars

\* ------------------------------------------------------------------------
\* QuantizeTileSize called on its own
\* ------------------------------------------------------------------------
\* Largest size of the dense range of sizes handed to QuantizeTileSize.
MaxSize == 1100

\* Sizes handed to QuantizeTileSize: every one up to MaxSize, and large ones.
QuantizedSizes == 0..MaxSize \cup {2048, 4096, 65536, 2147483647}

\* The static function applied to a size; the atlas is not touched.
Quantize(size) ==
    /\ call' = [op |-> "QuantizeTileSize", args |-> <<size>>,
                ret |-> QuantizeTileSize(size)]
    /\ UNCHANGED <<atlasVars, csmVars, sysVars, gl, glLog>>

QuantizeNext ==
    \E size \in QuantizedSizes : Quantize(size)

\* One atlas is enough: the function reads none of its members.
QuantizeInit ==
    /\ AtlasInit
    /\ m_AtlasSize = 1024

QuantizeSpec == QuantizeInit /\ [][QuantizeNext]_vars

\* ------------------------------------------------------------------------
\* AABB::Intersects on boxes of three axes
\* ------------------------------------------------------------------------
\* Coordinates of the corners Min and Max of a box.
Coords == 0..2

Axes == 1..3

Boxes ==
    {[Min |-> lo, Max |-> hi] : lo \in [Axes -> Coords], hi \in [Axes -> Coords]}

\* The boxes with Min <= Max on every axis, those with Min = Max included.
ProperBoxes ==
    {b \in Boxes : \A k \in Axes : b.Min[k] <= b.Max[k]}

\* The first comparison of each axis made strict.
IntersectsBoxStrictBelow(a, b) ==
    \A k \in Axes : a.Min[k] < b.Max[k] /\ a.Max[k] >= b.Min[k]

\* AABB::Intersects: a is *this, b is other.
IntersectsBox(a, b) ==
    \A k \in Axes : a.Min[k] <= b.Max[k] /\ a.Max[k] >= b.Min[k]

\* Two boxes have been constructed; nothing else exists.
AabbInit ==
    /\ NoAtlas
    /\ NoCsm
    /\ SystemUnbuilt
    /\ m_Settings = DefaultSettings
    /\ m_CSMData = IndeterminateCSMData(0)
    /\ gl = InitialGL
    /\ glLog = <<>>
    /\ \E a \in ProperBoxes, b \in ProperBoxes :
          call = [op |-> "AABB", args |-> <<a, b>>, ret |-> FALSE]

\* a.Intersects(b) for the two boxes constructed.
IntersectsCall ==
    /\ call.op = "AABB"
    /\ call' = [op |-> "Intersects", args |-> call.args,
                ret |-> IntersectsBox(call.args[1], call.args[2])]
    /\ UNCHANGED <<atlasVars, csmVars, sysVars, gl, glLog>>

AabbNext ==
    IntersectsCall

AabbSpec == AabbInit /\ [][AabbNext]_vars

\* ------------------------------------------------------------------------
\* The cascaded shadow map driven through its public interface
\* ------------------------------------------------------------------------
\* Near planes and shadow distances, in units of 200 / 1296: each the fourth
\* power of an integer, so that every ratio has a rational fourth root.
NearPlanes == {1, 16, 81, 1296}

MaxDistances == {16, 81, 256, 1296}

Lambdas == 0..LambdaDen

Cameras == {[Near |-> n] : n \in NearPlanes}

LightDirections == {"down", "side"}

\* Resolutions asked of Resize: zero, supported ones, and one above 4096.
CsmResolutions == {0, 4096, 8192}

CsmInit ==
    /\ NoAtlas
    /\ m_Resolution = DEFAULT_CSM_RESOLUTION
    /\ csmStorage = m_Resolution
    /\ \E g \in Indeterminate :
          /\ m_SplitDistances = IndeterminateSplits(g)
          /\ m_Cascades = IndeterminateCascades(g)
    /\ SystemUnbuilt
    /\ m_Settings = DefaultSettings
    /\ m_CSMData = IndeterminateCSMData(0)
    /\ gl = InitialGL
    /\ glLog = <<>>
    /\ call = [op |-> "CascadedShadowMap", args |-> <<m_Resolution>>, ret |-> 0]

Resize(resolution) ==
    \E r \in {ResizeOp(m_Resolution, csmStorage, resolution)} :
        /\ m_Resolution' = r.Resolution
        /\ csmStorage' = r.Storage
        /\ glLog' = IF r.Reallocated
                    THEN <<Cmd("glTextureStorage3D", "csm", 0, r.Resolution)>>
                    ELSE <<>>
        /\ call' = [op |-> "Resize", args |-> <<resolution, m_Resolution>>, ret |-> 0]
        /\ UNCHANGED <<atlasVars, m_SplitDistances, m_Cascades, sysVars, gl>>

Update(camera, lightDirection, maxDistance, lambda) ==
    \E u \in {CsmUpdateOp(camera, lightDirection, maxDistance, lambda, m_Resolution)} :
        /\ m_SplitDistances' = u.SplitDistances
        /\ m_Cascades' = u.Cascades
        /\ glLog' = <<>>
        /\ call' = [op |-> "Update",
                    args |-> <<camera, lightDirection, maxDistance, lambda>>, ret |-> 0,
                    repeated |-> /\ call.op = "Update"
                                 /\ call.args = <<camera, lightDirection, maxDistance,
                                                  lambda>>]
        /\ UNCHANGED <<atlasVars, m_Resolution, csmStorage, sysVars, gl>>

CsmNext ==
    \/ \E r \in CsmResolutions : Resize(r)
    \/ \E c \in Cameras, d \in LightDirections, m \in MaxDistances, l \in Lambdas :
          Update(c, d, m, l)

CsmSpec == CsmInit /\ [][CsmNext]_vars

\* ------------------------------------------------------------------------
\* The orchestrator
\* ------------------------------------------------------------------------
\* Number of processed frames explored.
MaxFrame == 5

\* OnReload is explored while the shader members hold an object older than
\* the MaxReload-th.
MaxReload == 2

\* Renderables of the registry: given as depth intervals along the view axis,
\* in split units (distance * SplitScale).
Renderable(entity, castShadows, visible, vao, lo, hi) ==
    [Entity |-> entity, CastShadows |-> castShadows, Visible |-> visible, VAO |-> vao,
     WorldBounds |-> [Min |-> lo, Max |-> hi]]

NoRenderables == <<>>

\* A hidden entity, a caster inside the shadow range, an entity without mesh
\* data, and a caster beyond every shadow distance of the model.
SomeRenderables ==
    <<Renderable(1, TRUE, FALSE, TRUE, 300, 400),
      Renderable(2, TRUE, TRUE, TRUE, 300, 400),
      Renderable(3, TRUE, TRUE, FALSE, 300, 400),
      Renderable(4, TRUE, TRUE, TRUE, 30000, 30100)>>

DirLight(enabled, castShadows, resolution, lambda) ==
    [Enabled |-> enabled, CastShadows |-> castShadows, Direction |-> "side",
     ShadowBias |-> 5, NormalBias |-> 200, ShadowSoftness |-> 1,
     ShadowResolution |-> resolution, CascadeSplitLambda |-> lambda]

\* A view whose first two lights are skipped, and whose third differs from the
\* fourth in resolution and lambda.
SeveralDirLights ==
    <<DirLight(FALSE, TRUE, 512, 0), DirLight(TRUE, FALSE, 512, 0),
      DirLight(TRUE, TRUE, 1024, 2), DirLight(TRUE, TRUE, 4096, 4)>>

SpotLight(enabled, castShadows) ==
    [Enabled |-> enabled, CastShadows |-> castShadows, Position |-> 320,
     Direction |-> "down", OuterCutOff |-> 35, Range |-> 50]

\* n enabled shadow-casting spot lights after a disabled and a non-casting one.
SpotLightView(n) ==
    <<SpotLight(FALSE, TRUE), SpotLight(TRUE, FALSE)>>
    \o [k \in 1..n |-> SpotLight(TRUE, TRUE)]

Registry(renderables, dirLights, spotLights) ==
    [Renderables |-> renderables, DirLights |-> dirLights, SpotLights |-> spotLights]

\* The scenes a frame is run on.
Registries ==
    {Registry(NoRenderables, <<>>, <<>>),
     Registry(SomeRenderables, SeveralDirLights, SpotLightView(20)),
     Registry(SomeRenderables, <<>>, SpotLightView(3)),
     Registry(SomeRenderables, <<DirLight(FALSE, TRUE, 512, 0)>>, SpotLightView(0)),
     Registry(NoRenderables, <<DirLight(TRUE, TRUE, 0, DefaultLambda)>>, SpotLightView(20)),
     Registry(SomeRenderables, <<DirLight(TRUE, TRUE, 8192, DefaultLambda)>>, <<>>)}

\* Atlas sizes the application configures before OnCreate.
SpotAtlasSizes == {1024, DEFAULT_SPOT_SHADOW_ATLAS_SIZE}

Init ==
    /\ NoAtlas
    /\ NoCsm
    /\ SystemUnbuilt
    /\ \E a \in SpotAtlasSizes :
          m_Settings = [DefaultSettings EXCEPT !.SpotShadowAtlasSize = a]
    /\ \E g \in Indeterminate : m_CSMData = IndeterminateCSMData(g)
    /\ gl = InitialGL
    /\ glLog = <<>>
    /\ call = [op |-> "ShadowMapSystem", args |-> <<>>, ret |-> 0]

\* Each member is given a shader object created by the call.
LoadShaders(depthShader, spotDepthShader) ==
    [DepthShader |-> depthShader + 1, SpotDepthShader |-> spotDepthShader + 1]

OnCreate ==
    /\ ~m_Initialized
    /\ m_Resolution' = m_Settings.CascadeResolution
    /\ csmStorage' = m_Settings.CascadeResolution
    /\ \E g \in Indeterminate :
          /\ m_SplitDistances' = IndeterminateSplits(g)
          /\ m_Cascades' = IndeterminateCascades(g)
          /\ ubo' = IndeterminateUBO(g)
    /\ m_AtlasSize' = m_Settings.SpotShadowAtlasSize
    /\ atlasHandles' = AtlasCreateResources
    /\ m_Tiles' = InitializeTiles(m_Settings.SpotShadowAtlasSize)
    /\ m_CurrentFrame' = 0
    /\ \E l \in {LoadShaders(m_DepthShader, m_SpotDepthShader)} :
          /\ m_DepthShader' = l.DepthShader
          /\ m_SpotDepthShader' = l.SpotDepthShader
    /\ m_Initialized' = TRUE
    /\ glLog' = <<>>
    /\ call' = [op |-> "OnCreate", args |-> <<>>, ret |-> 0]
    /\ UNCHANGED <<m_Camera, m_Settings, m_ShadowCasters, m_CSMData, m_SpotShadowData,
                   m_SpotShadowCount, m_CurrentLight, m_Stats, m_FrameNumber, gl>>

SetCamera(camera) ==
    /\ m_Camera' = camera
    /\ glLog' = <<>>
    /\ call' = [op |-> "SetCamera", args |-> <<camera>>, ret |-> 0]
    /\ UNCHANGED <<atlasVars, csmVars, m_Initialized, m_Settings, m_ShadowCasters,
                   m_CSMData, m_SpotShadowData, m_SpotShadowCount, m_CurrentLight,
                   m_Stats, m_FrameNumber, m_DepthShader, m_SpotDepthShader, ubo, gl>>

\* A reload that builds the atlas anew and starts the frames over.
OnReloadRebuilding ==
    /\ m_DepthShader < MaxReload
    /\ \E l \in {LoadShaders(m_DepthShader, m_SpotDepthShader)} :
          /\ m_DepthShader' = l.DepthShader
          /\ m_SpotDepthShader' = l.SpotDepthShader
    /\ m_Tiles' = InitializeTiles(m_AtlasSize)
    /\ m_FrameNumber' = 0
    /\ glLog' = <<>>
    /\ call' = [op |-> "OnReload", args |-> <<>>, ret |-> 0]
    /\ UNCHANGED <<m_AtlasSize, atlasHandles, m_CurrentFrame, csmVars, m_Initialized, m_Camera,
                   m_Settings, m_ShadowCasters, m_CSMData, m_SpotShadowData,
                   m_SpotShadowCount, m_CurrentLight, m_Stats, ubo, gl>>

\* The scheduler's NotifyReload calls OnReload, between two frames.
OnReload ==
    /\ m_DepthShader < MaxReload
    /\ \E l \in {LoadShaders(m_DepthShader, m_SpotDepthShader)} :
          /\ m_DepthShader' = l.DepthShader
          /\ m_SpotDepthShader' = l.SpotDepthShader
    /\ glLog' = <<>>
    /\ call' = [op |-> "OnReload", args |-> <<>>, ret |-> 0]
    /\ UNCHANGED <<atlasVars, csmVars, m_Initialized, m_Camera, m_Settings,
                   m_ShadowCasters, m_CSMData, m_SpotShadowData, m_SpotShadowCount,
                   m_CurrentLight, m_Stats, m_FrameNumber, ubo, gl>>

\* The configuration UI writes a field of the settings through GetSettings().
SetSetting(field, value) ==
    /\ m_Settings' = [m_Settings EXCEPT ![field] = value]
    /\ glLog' = <<>>
    /\ call' = [op |-> "SetSetting", args |-> <<field, value>>, ret |-> 0]
    /\ UNCHANGED <<atlasVars, csmVars, m_Initialized, m_Camera, m_ShadowCasters,
                   m_CSMData, m_SpotShadowData, m_SpotShadowCount, m_CurrentLight,
                   m_Stats, m_FrameNumber, m_DepthShader, m_SpotDepthShader, ubo, gl>>

\* The members the stages of a frame read and write, as one record.
FrameState ==
    [Camera |-> m_Camera, Settings |-> m_Settings, Casters |-> m_ShadowCasters,
     CSMData |-> m_CSMData, SpotShadowData |-> m_SpotShadowData,
     SpotShadowCount |-> m_SpotShadowCount, CurrentLight |-> m_CurrentLight,
     Stats |-> m_Stats, FrameNumber |-> m_FrameNumber, UBO |-> ubo,
     AtlasSize |-> m_AtlasSize, Tiles |-> m_Tiles, CurrentFrame |-> m_CurrentFrame,
     Resolution |-> m_Resolution, Storage |-> csmStorage,
     SplitDistances |-> m_SplitDistances, Cascades |-> m_Cascades,
     GL |-> gl, Log |-> <<>>]

\* A frame that hands the atlas the number of the frame before it.
ProcessFrameStaleBeginFrame(s, registry) ==
    LET s1 == [s EXCEPT !.Stats = ZeroStats,
                        !.FrameNumber = @ + 1,
                        !.CurrentFrame = s.FrameNumber,
                        !.Log = @ \o <<Cmd("BeginFrame", "atlas", 0, s.FrameNumber)>>]
        s2 == [s1 EXCEPT !.Casters = GatherShadowCasters(registry)]
        s3 == RenderDirectionalShadows(s2, registry)
        s4 == RenderSpotShadows(s3, registry)
    IN  UploadShadowData(s4)

\* A frame whose spot pass runs before its directional pass.
ProcessFrameSpotFirst(s, registry) ==
    LET s1 == [s EXCEPT !.Stats = ZeroStats,
                        !.FrameNumber = @ + 1,
                        !.CurrentFrame = s.FrameNumber + 1,
                        !.Log = @ \o <<Cmd("BeginFrame", "atlas", 0, s.FrameNumber + 1)>>]
        s2 == [s1 EXCEPT !.Casters = GatherShadowCasters(registry)]
        s3 == RenderSpotShadows(s2, registry)
        s4 == RenderDirectionalShadows(s3, registry)
    IN  UploadShadowData(s4)

\* The body of OnUpdate after its guard: statistics reset, frame counter,
\* BeginFrame, and the four stages in order.
ProcessFrame(s, registry) ==
    LET s1 == [s EXCEPT !.Stats = ZeroStats,
                        !.FrameNumber = @ + 1,
                        !.CurrentFrame = s.FrameNumber + 1,
                        !.Log = @ \o <<Cmd("BeginFrame", "atlas", 0, s.FrameNumber + 1)>>]
        s2 == [s1 EXCEPT !.Casters = GatherShadowCasters(registry)]
        s3 == RenderDirectionalShadows(s2, registry)
        s4 == RenderSpotShadows(s3, registry)
    IN  UploadShadowData(s4)

\* A guard that does not look at the Enabled setting.
FrameSkippedWhateverEnabled ==
    ~m_Initialized \/ m_Camera = NoCamera

\* The guard of OnUpdate: the frame is not processed.
FrameSkipped ==
    ~m_Initialized \/ m_Camera = NoCamera \/ ~m_Settings.Enabled

\* call.ret tells whether the frame was processed (1) or OnUpdate returned at
\* its guard (0).
OnUpdate(registry) ==
    IF FrameSkipped
    THEN /\ glLog' = <<>>
         /\ call' = [op |-> "OnUpdate", args |-> <<>>, ret |-> 0]
         /\ UNCHANGED <<atlasVars, csmVars, sysVars, gl>>
    ELSE /\ m_FrameNumber < MaxFrame
         /\ \E t \in {ProcessFrame(FrameState, registry)} :
                /\ m_Settings' = t.Settings
                /\ m_ShadowCasters' = t.Casters
                /\ m_CSMData' = t.CSMData
                /\ m_SpotShadowData' = t.SpotShadowData
                /\ m_SpotShadowCount' = t.SpotShadowCount
                /\ m_CurrentLight' = t.CurrentLight
                /\ m_Stats' = t.Stats
                /\ m_FrameNumber' = t.FrameNumber
                /\ ubo' = t.UBO
                /\ m_Tiles' = t.Tiles
                /\ m_CurrentFrame' = t.CurrentFrame
                /\ m_Resolution' = t.Resolution
                /\ csmStorage' = t.Storage
                /\ m_SplitDistances' = t.SplitDistances
                /\ m_Cascades' = t.Cascades
                /\ gl' = t.GL
                /\ glLog' = t.Log
         /\ call' = [op |-> "OnUpdate", args |-> <<registry>>, ret |-> 1]
         /\ UNCHANGED <<m_AtlasSize, atlasHandles, m_Initialized, m_Camera, m_DepthShader,
                        m_SpotDepthShader>>

\* Cameras the application hands to SetCamera.
SystemCameras == {NoCamera, [Near |-> 16]}

Next ==
    \/ OnCreate
    \/ \E c \in SystemCameras : SetCamera(c)
    \/ \E b \in BOOLEAN : SetSetting("Enabled", b)
    \/ \E r \in Registries : OnUpdate(r)
    \/ OnReload

Spec == Init /\ [][Next]_vars

\* ------------------------------------------------------------------------
\* Properties of the spot shadow atlas (AtlasSpec)
\* ------------------------------------------------------------------------
\* Some tile of the table is large enough for a request of requestedSize.
SufficientTileExists(tiles, requestedSize) ==
    \E k \in 1..Len(tiles) : tiles[k].Size >= QuantizeTileSize(requestedSize)

\* C1: AllocateTile returns NONE only when no tile has a Size of at least the
\* quantized requested size; it never fails because of contention, whatever
\* the tiles' LastUsedFrame values are relative to the current frame.
C1_NoneOnlyWithoutSufficientTile ==
    (call.op = "AllocateTile" /\ call.ret = NONE)
        => ~SufficientTileExists(m_Tiles, call.args[1])

\* Every tile of the table is owned by some light.
AtlasFull(tiles) == Len(tiles) > 0 /\ \A k \in 1..Len(tiles) : ~IsFree(tiles[k])

\* C2: once every tile of the atlas is owned, whatever BeginFrame calls were
\* made in between, one more AllocateTile of a fitting size for a light that
\* owns no tile does not return NONE: it hands that light a tile whose
\* LastUsedFrame was the smallest of the table.
C2_FullAtlasEvictsOldest ==
    [][(/\ call'.op = "AllocateTile"
        /\ AtlasFull(m_Tiles)
        /\ SufficientTileExists(m_Tiles, call'.args[1])
        /\ \A k \in 1..Len(m_Tiles) : m_Tiles[k].LightIndex # call'.args[2])
       => (/\ call'.ret # NONE
           /\ TileAt(m_Tiles', call'.ret).LightIndex = call'.args[2]
           /\ \A k \in 1..Len(m_Tiles) :
                 TileAt(m_Tiles, call'.ret).LastUsedFrame <= m_Tiles[k].LastUsedFrame)]_vars

\* Two tiles share no texel.
Disjoint(a, b) ==
    \/ a.X + a.Size <= b.X
    \/ b.X + b.Size <= a.X
    \/ a.Y + a.Size <= b.Y
    \/ b.Y + b.Size <= a.Y

\* C7: an atlas of size S holds floor(S / 512)^2 tiles of size 512, all free
\* at construction; in every reachable state the tiles are pairwise disjoint
\* and lie inside [0, S) x [0, S).
C7_TileGrid ==
    /\ Len(m_Tiles) = (m_AtlasSize \div defaultTileSize) * (m_AtlasSize \div defaultTileSize)
    /\ call.op = "ShadowAtlas" => \A k \in 1..Len(m_Tiles) : IsFree(m_Tiles[k])
    /\ \A k \in 1..Len(m_Tiles) :
          /\ m_Tiles[k].Size = defaultTileSize
          /\ m_Tiles[k].X >= 0 /\ m_Tiles[k].X + m_Tiles[k].Size <= m_AtlasSize
          /\ m_Tiles[k].Y >= 0 /\ m_Tiles[k].Y + m_Tiles[k].Size <= m_AtlasSize
    /\ \A j, k \in 1..Len(m_Tiles) : j # k => Disjoint(m_Tiles[j], m_Tiles[k])

\* A four-tile atlas in which an allocation has just evicted an owned tile.
C7_Witness ==
    /\ m_AtlasSize = 1024
    /\ call.op = "AllocateTile" /\ call.ret # NONE
    /\ AtlasFull(m_Tiles)
    /\ \E j, k \in 1..Len(m_Tiles) : m_Tiles[j].LightIndex # m_Tiles[k].LightIndex
    /\ m_CurrentFrame = 1

\* ------------------------------------------------------------------------
\* Properties of the cascaded shadow map (CsmSpec)
\* ------------------------------------------------------------------------
\* C8: a Resize to resolution 0 or to a resolution above 4096 is rejected:
\* m_Resolution and the storage of the texture array stay what they were
\* before the call, and nothing is reallocated.
C8_InvalidResizeRejected ==
    (call.op = "Resize" /\ (call.args[1] = 0 \/ call.args[1] > 4096))
        => (/\ m_Resolution = call.args[2]
            /\ csmStorage = call.args[2]
            /\ glLog = <<>>)

\* The splits never decrease from one to the next.
NonDecreasing(splits) == \A i \in 1..(Len(splits) - 1) : splits[i] <= splits[i + 1]

StrictlyIncreasing(splits) == \A i \in 1..(Len(splits) - 1) : splits[i] < splits[i + 1]

\* C9: an Update whose maxDistance is at or below the camera's near plane
\* still leaves CSM_CASCADE_COUNT + 1 splits that start at the near plane and
\* never decrease.
C9_SplitsClampedBelowNear ==
    (call.op = "Update" /\ call.args[3] <= NearPlaneOf(call.args[1]))
        => (/\ Len(m_SplitDistances) = CSM_CASCADE_COUNT + 1
            /\ m_SplitDistances[1] = NearPlaneOf(call.args[1]) * SplitScale
            /\ NonDecreasing(m_SplitDistances))

UploadedEnabledFlag == ubo.CSM.ShadowParams[4]

\* The draw calls issued by the last OnUpdate.
DrawCalls == CountCmd(glLog, "glDrawElements")

\* C3: once a frame has been uploaded, an OnUpdate made while
\* m_Settings.Enabled is false leaves the enabled flag of the uniform buffer
\* at 0.
C3_DisabledFrameUploadsZeroFlag ==
    (call.op = "OnUpdate" /\ m_Initialized /\ ~m_Settings.Enabled /\ m_FrameNumber > 0)
        => UploadedEnabledFlag = 0

\* Number of enabled, shadow-casting lights of a view.
ShadowLightCount(lights) ==
    Cardinality({k \in 1..Len(lights) : lights[k].Enabled /\ lights[k].CastShadows})

\* C4: after an OnUpdate made without a camera (once the buffer has been
\* written), or processed on a scene without any enabled shadow-casting light,
\* the enabled flag of the uniform buffer is 0 and the frame issued no draw
\* call.
C4_NoCameraOrNoLightUploadsZeroFlag ==
    (/\ call.op = "OnUpdate"
     /\ m_Initialized
     /\ \/ m_Camera = NoCamera /\ m_FrameNumber > 0
        \/ /\ call.ret = 1
           /\ ShadowLightCount(call.args[1].DirLights) = 0
           /\ ShadowLightCount(call.args[1].SpotLights) = 0)
        => (UploadedEnabledFlag = 0 /\ DrawCalls = 0)

\* C5: after every processed frame the spot count in the uniform buffer is
\* the number of spot shadows rendered in that frame; a frame without shadow
\* casters uploads 0 and issues no draw call.
C5_UploadedCountIsRenderedCount ==
    (call.op = "OnUpdate" /\ call.ret = 1)
        => (/\ ubo.ShadowCounts[1] = m_Stats.SpotShadowsRendered
            /\ m_ShadowCasters = <<>> => (ubo.ShadowCounts[1] = 0 /\ DrawCalls = 0))

\* C6: with the 4096 atlas, a processed frame on a scene with K enabled
\* shadow-casting spot lights and at least one caster renders min(K, 16) spot
\* shadows, holds as many GPU entries and uploads that count; the count never
\* exceeds 16.
C6_SpotShadowsAreMinOfLightsAndCap ==
    /\ m_SpotShadowCount <= MAX_SHADOW_CASTING_SPOT
    /\ (/\ call.op = "OnUpdate" /\ call.ret = 1
        /\ m_AtlasSize = DEFAULT_SPOT_SHADOW_ATLAS_SIZE
        /\ m_ShadowCasters # <<>>)
          => LET K == ShadowLightCount(call.args[1].SpotLights)
                 n == Min2(K, MAX_SHADOW_CASTING_SPOT)
             IN  /\ m_Stats.SpotShadowsRendered = n
                 /\ Len(m_SpotShadowData) = n
                 /\ m_SpotShadowCount = n
                 /\ ubo.ShadowCounts[1] = n

\* The fifth frame in a row with more lights than the cap: every tile of the
\* 4096 atlas is owned, and the first tile has been evicted and stamped again.
C6_Witness ==
    /\ call.op = "OnUpdate" /\ call.ret = 1
    /\ m_AtlasSize = DEFAULT_SPOT_SHADOW_ATLAS_SIZE
    /\ ShadowLightCount(call.args[1].SpotLights) > MAX_SHADOW_CASTING_SPOT
    /\ m_Stats.SpotShadowsRendered = MAX_SHADOW_CASTING_SPOT
    /\ AtlasFull(m_Tiles)
    /\ m_Tiles[1].LastUsedFrame = 5

\* Position of a command's stage in the frame: frame start, directional
\* pass, spot pass, upload.
StageOf(c) ==
    IF c.target = "atlas" THEN 0
    ELSE IF c.target = "csm" THEN 1
    ELSE IF c.target = "spot" THEN 2
    ELSE 3

\* The commands of the log with the given name and target.
CmdsOf(log, cmd, target) ==
    {k \in 1..Len(log) : log[k].cmd = cmd /\ log[k].target = target}

\* C11: a processed frame gathers the casters, then runs the directional
\* pass, the spot pass and the upload once each in that order: the snapshot
\* is the one gathered from the frame's registry, every command of the
\* directional pass precedes every command of the spot pass, every draw
\* precedes the upload, each pass is unbound at most once, and the frame ends
\* with the single upload of the counts.  An OnUpdate that returns at its
\* guard issues nothing.
C11_StagesOnceInOrder ==
    call.op = "OnUpdate" =>
        IF call.ret = 0 THEN glLog = <<>>
        ELSE /\ m_ShadowCasters = GatherShadowCasters(call.args[1])
             /\ \A i, j \in 1..Len(glLog) : i < j => StageOf(glLog[i]) <= StageOf(glLog[j])
             /\ Cardinality(CmdsOf(glLog, "CsmUnbind", "csm")) <= 1
             /\ Cardinality(CmdsOf(glLog, "AtlasUnbind", "spot")) <= 1
             /\ Cardinality({k \in 1..Len(glLog) :
                                glLog[k].target = "ubo" /\ glLog[k].index = 0}) = 1
             /\ Len(glLog) > 0
             /\ glLog[Len(glLog)] =
                   Cmd("glNamedBufferSubData", "ubo",
                       SizeofGPUCascadedShadowData
                       + MAX_SHADOW_CASTING_SPOT * SizeofGPUSpotShadowData,
                       SizeofIVec4)

\* A frame that drew into cascades and into spot tiles.
C11_Witness ==
    /\ call.op = "OnUpdate" /\ call.ret = 1
    /\ CmdsOf(glLog, "glDrawElements", "csm") # {}
    /\ CmdsOf(glLog, "glDrawElements", "spot") # {}
    /\ CmdsOf(glLog, "glTextureStorage3D", "csm") # {}

\* No tile is stamped with a frame later than the atlas's current frame.
TilesNotAheadOfFrame ==
    \A k \in 1..Len(m_Tiles) : m_Tiles[k].LastUsedFrame <= m_CurrentFrame

\* The log of a processed frame starts with its only BeginFrame, whose frame
\* number is the new frame counter, and every tile handed out afterwards in
\* the frame carries that number.
BeginFrameOnceAndFirst ==
    (call.op = "OnUpdate" /\ call.ret = 1) =>
        /\ CmdsOf(glLog, "BeginFrame", "atlas") = {1}
        /\ glLog[1].arg = m_FrameNumber
        /\ m_CurrentFrame = m_FrameNumber
        /\ \A k \in CmdsOf(glLog, "AllocateTile", "spot") :
              /\ k > 1
              /\ glLog[k].index >= 0 =>
                    TileAt(m_Tiles, glLog[k].index).LastUsedFrame = m_CurrentFrame

\* C12: every processed frame calls BeginFrame exactly once, before any
\* AllocateTile of the frame, with a frame number strictly greater than that
\* of every earlier frame (the atlas's current frame never goes back and
\* grows with each processed frame); in every reachable state each tile's
\* LastUsedFrame is at most the atlas's current frame.
C12_BeginFrameOncePerFrame ==
    /\ [](TilesNotAheadOfFrame /\ BeginFrameOnceAndFirst)
    /\ [][/\ m_CurrentFrame' >= m_CurrentFrame
          /\ (call'.op = "OnUpdate" /\ call'.ret = 1) => m_CurrentFrame' > m_CurrentFrame]_vars

\* A second processed frame that allocated tiles: tiles of both frames are
\* owned.
C12_Witness ==
    /\ call.op = "OnUpdate" /\ call.ret = 1
    /\ m_FrameNumber = 2
    /\ CmdsOf(glLog, "AllocateTile", "spot") # {}
    /\ \E j, k \in 1..Len(m_Tiles) :
          /\ ~IsFree(m_Tiles[j]) /\ m_Tiles[j].LastUsedFrame = 1
          /\ ~IsFree(m_Tiles[k]) /\ m_Tiles[k].LastUsedFrame = 2

IsBind(c) == c.cmd \in {"BindForCascade", "BindForTile"}

IsUnbind(c) == c.cmd \in {"CsmUnbind", "AtlasUnbind"}

\* A cascade layer or an atlas tile is bound when command k of the log runs:
\* some earlier bind has not been followed by an unbind.
BoundAt(log, k) ==
    \E j \in 1..(k - 1) :
        /\ IsBind(log[j])
        /\ \A i \in (j + 1)..(k - 1) : ~IsUnbind(log[i])

\* C13: the reallocation of the CSM texture array never happens mid-pass: a
\* frame starts and ends with the default framebuffer bound, and a resize of
\* the frame precedes every BindForCascade and BindForTile of the frame, so
\* that no cascade layer or atlas tile is bound when it runs.
C13_ResizeOnlyBeforePasses ==
    /\ gl.Framebuffer = "default"
    /\ \A k \in CmdsOf(glLog, "glTextureStorage3D", "csm") :
          /\ ~BoundAt(glLog, k)
          /\ \A j \in 1..(k - 1) : ~IsBind(glLog[j])

\* A frame that reallocated the texture array and then drew into cascades and
\* tiles, after an earlier frame had drawn as well.
C13_Witness ==
    /\ call.op = "OnUpdate" /\ call.ret = 1
    /\ m_FrameNumber >= 2
    /\ CmdsOf(glLog, "glTextureStorage3D", "csm") # {}
    /\ CmdsOf(glLog, "BindForCascade", "csm") # {}
    /\ CmdsOf(glLog, "BindForTile", "spot") # {}
    /\ \E k \in 1..Len(m_Tiles) : ~IsFree(m_Tiles[k]) /\ m_Tiles[k].LastUsedFrame < m_FrameNumber

\* The AllocateTile calls of the log that failed.
FailedAllocations(log) ==
    {k \in CmdsOf(log, "AllocateTile", "spot") : log[k].index < 0}

\* C14: in a processed frame with casters, a spot light whose AllocateTile
\* fails is skipped and nothing else is: the failed call is followed at once
\* by the next light's AllocateTile or by the end of the pass (no bind, clear
\* or draw for it), only successful calls are counted and recorded, a
\* successful call is followed by the bind of its tile, every enabled
\* shadow-casting light is tried unless the cap was reached, and the frame
\* ends with the upload of the count.
C14_FailedAllocationSkipsOneLight ==
    (call.op = "OnUpdate" /\ call.ret = 1 /\ m_ShadowCasters # <<>>) =>
        LET calls == CmdsOf(glLog, "AllocateTile", "spot")
            failed == FailedAllocations(glLog)
        IN  /\ \A k \in failed :
                  glLog[k + 1].cmd \in {"AllocateTile", "AtlasUnbind"}
            /\ \A k \in calls \ failed :
                  glLog[k + 1] = Cmd("BindForTile", "spot", glLog[k].index, glLog[k].arg)
            /\ Cardinality(CmdsOf(glLog, "BindForTile", "spot")) = Cardinality(calls \ failed)
            /\ m_SpotShadowCount = Cardinality(calls \ failed)
            /\ Len(m_SpotShadowData) = m_SpotShadowCount
            /\ m_Stats.SpotShadowsRendered = m_SpotShadowCount
            /\ m_SpotShadowCount < MAX_SHADOW_CASTING_SPOT =>
                  Cardinality(calls) = ShadowLightCount(call.args[1].SpotLights)
            /\ ubo.ShadowCounts[1] = m_SpotShadowCount
            /\ glLog[Len(glLog)].cmd = "glNamedBufferSubData"

\* A frame in which some lights got a tile and the lights after them did not.
C14_Witness ==
    /\ call.op = "OnUpdate" /\ call.ret = 1
    /\ FailedAllocations(glLog) # {}
    /\ m_SpotShadowCount > 0
    /\ Cardinality(FailedAllocations(glLog)) + m_SpotShadowCount
          = ShadowLightCount(call.args[1].SpotLights)

\* The draws of the log into cascade c for the given entity.
CascadeDrawsOf(log, c, entity) ==
    {k \in CmdsOf(log, "glDrawElements", "csm") : log[k].index = c /\ log[k].arg = entity}

\* C15: in a frame whose directional pass ran, a caster of the snapshot is
\* drawn into cascade c exactly once if its world bounds intersect the world
\* AABB of cascade c and not at all otherwise; a caster that intersects no
\* cascade is in the snapshot and has no draw into any cascade.
C15_CascadeDrawIffIntersects ==
    (call.op = "OnUpdate" /\ call.ret = 1 /\ CmdsOf(glLog, "BindForCascade", "csm") # {}) =>
        /\ m_ShadowCasters = GatherShadowCasters(call.args[1])
        /\ \A c \in 0..(CSM_CASCADE_COUNT - 1) : \A n \in 1..Len(m_ShadowCasters) :
              Cardinality(CascadeDrawsOf(glLog, c, m_ShadowCasters[n].Entity))
                 = IF Intersects(m_Cascades[c + 1].WorldBounds, m_ShadowCasters[n].WorldBounds)
                   THEN 1 ELSE 0
        /\ \A k \in CmdsOf(glLog, "glDrawElements", "csm") :
              \E n \in 1..Len(m_ShadowCasters) : m_ShadowCasters[n].Entity = glLog[k].arg
        /\ m_Stats.ShadowCastersRendered
              = Cardinality(CmdsOf(glLog, "glDrawElements", "csm"))

\* A directional pass that drew one caster of the snapshot into some but not
\* all cascades, and another caster of the snapshot into none.
C15_Witness ==
    /\ call.op = "OnUpdate" /\ call.ret = 1
    /\ \E n, f \in 1..Len(m_ShadowCasters) :
          /\ \E c \in 0..(CSM_CASCADE_COUNT - 1) :
                CascadeDrawsOf(glLog, c, m_ShadowCasters[n].Entity) # {}
          /\ \E c \in 0..(CSM_CASCADE_COUNT - 1) :
                CascadeDrawsOf(glLog, c, m_ShadowCasters[n].Entity) = {}
          /\ \A c \in 0..(CSM_CASCADE_COUNT - 1) :
                CascadeDrawsOf(glLog, c, m_ShadowCasters[f].Entity) = {}
    /\ CmdsOf(glLog, "BindForCascade", "csm") # {}

\* The writes of the log into the uniform buffer, in order.
UboWrites(log) ==
    SelectSeq(log, LAMBDA c : c.cmd = "glNamedBufferSubData" /\ c.target = "ubo")

\* The bytes [w.index, w.index + w.arg) of two writes do not meet.
RangesDisjoint(w1, w2) ==
    w1.index + w1.arg <= w2.index \/ w2.index + w2.arg <= w1.index

\* C16: the uniform buffer is created with 352 + 16 * 96 + 16 = 1904 bytes and
\* keeps that size; the writes of a frame are the cascade block at offset 0 of
\* 352 bytes, the spot block at offset 352 of count * 96 bytes (absent when the
\* count is 0) and the counts at offset 1888 of 16 bytes, every one of them
\* inside the buffer and no two of them overlapping.
C16_UboWritesInsideAndDisjoint ==
    /\ m_Initialized => ubo.Size = 1904
    /\ LET w == UboWrites(glLog)
           n == ubo.ShadowCounts[1]
       IN  w # <<>> =>
             /\ w = <<Cmd("glNamedBufferSubData", "ubo", 0, 352)>>
                    \o (IF n > 0
                        THEN <<Cmd("glNamedBufferSubData", "ubo", 352, n * 96)>>
                        ELSE <<>>)
                    \o <<Cmd("glNamedBufferSubData", "ubo", 1888, 16)>>
             /\ \A k \in 1..Len(w) :
                   /\ w[k].index >= 0
                   /\ w[k].arg > 0
                   /\ w[k].index + w[k].arg <= ubo.Size
             /\ \A j, k \in 1..Len(w) : j # k => RangesDisjoint(w[j], w[k])

\* A frame that uploaded the full 16 spot shadows: the spot block ends where
\* the counts begin.
C16_Witness ==
    /\ m_Initialized
    /\ ubo.ShadowCounts[1] = MAX_SHADOW_CASTING_SPOT
    /\ \E k \in 1..Len(glLog) :
          glLog[k] = Cmd("glNamedBufferSubData", "ubo", 352, 1536)

C18_DisabledFrameChangesNothing ==
    [][(call'.op = "OnUpdate" /\ ~m_Settings.Enabled)
       => /\ CountCmd(glLog', "glDrawElements") = 0
          /\ m_FrameNumber' = m_FrameNumber
          /\ m_Tiles' = m_Tiles
          /\ m_CurrentFrame' = m_CurrentFrame
          /\ m_ShadowCasters' = m_ShadowCasters
          /\ m_SplitDistances' = m_SplitDistances
          /\ m_Cascades' = m_Cascades
          /\ m_Resolution' = m_Resolution
          /\ m_Stats' = m_Stats]_vars

\* OnUpdate has returned, the setting being false, in a system that has a
\* camera and has rendered frames: tiles are owned, casters are in the
\* snapshot and the statistics count draws.
C18_Witness ==
    /\ call.op = "OnUpdate"
    /\ call.ret = 0
    /\ ~m_Settings.Enabled
    /\ m_Initialized
    /\ m_Camera # NoCamera
    /\ m_FrameNumber > 1
    /\ GetAllocatedTileCount(m_Tiles) > 0
    /\ m_ShadowCasters # <<>>
    /\ m_Stats.ShadowCastersRendered > 0
    /\ glLog = <<>>

\* C19: OnReload gives m_DepthShader and m_SpotDepthShader new shader objects
\* and changes nothing else: the frame counter, the settings, the tiles of
\* the atlas (owner and LastUsedFrame of each) and its frame, the resolution,
\* split distances and cascades of the CSM, the spot-shadow count and data,
\* the statistics, the caster snapshot, the uniform buffer and the GL state
\* are as before, in whatever state the reload is called.
C19_ReloadReplacesOnlyShaders ==
    [][call'.op = "OnReload"
       => /\ m_DepthShader' # m_DepthShader
          /\ m_SpotDepthShader' # m_SpotDepthShader
          /\ m_FrameNumber' = m_FrameNumber
          /\ m_Settings' = m_Settings
          /\ m_Tiles' = m_Tiles
          /\ \A k \in 1..Len(m_Tiles) :
                /\ m_Tiles'[k].LightIndex = m_Tiles[k].LightIndex
                /\ m_Tiles'[k].LastUsedFrame = m_Tiles[k].LastUsedFrame
          /\ m_CurrentFrame' = m_CurrentFrame
          /\ m_AtlasSize' = m_AtlasSize
          /\ m_Resolution' = m_Resolution
          /\ m_SplitDistances' = m_SplitDistances
          /\ m_Cascades' = m_Cascades
          /\ m_SpotShadowCount' = m_SpotShadowCount
          /\ m_SpotShadowData' = m_SpotShadowData
          /\ m_Stats' = m_Stats
          /\ m_ShadowCasters' = m_ShadowCasters
          /\ m_Initialized' = m_Initialized
          /\ m_Camera' = m_Camera
          /\ ubo' = ubo
          /\ gl' = gl]_vars

\* The shaders were reloaded after frames were rendered: tiles are owned and
\* were used in an earlier frame, spot shadows are recorded, the statistics
\* count draws.
C19_Witness ==
    /\ call.op = "OnReload"
    /\ m_Initialized
    /\ m_DepthShader > 1
    /\ m_SpotDepthShader > 1
    /\ m_FrameNumber > 1
    /\ \E k \in 1..Len(m_Tiles) :
          ~IsFree(m_Tiles[k]) /\ m_Tiles[k].LastUsedFrame \in 1..(m_FrameNumber - 1)
    /\ m_SpotShadowCount > 0
    /\ m_Stats.ShadowCastersRendered > 0

\* C20: QuantizeTileSize returns 256 for a size of at most 256 (0 included),
\* 512 for a size above 256 and at most 512, and 1024 for a size above 512;
\* what it returns is one of 256, 512 and 1024, and is at least the size
\* when the size is at most 1024.
C20_QuantizeBuckets ==
    call.op = "QuantizeTileSize" =>
        LET x == call.args[1]
            r == call.ret
        IN  /\ x <= 256 => r = 256
            /\ (x > 256 /\ x <= 512) => r = 512
            /\ x > 512 => r = 1024
            /\ r \in {256, 512, 1024}
            /\ x <= 1024 => r >= x

\* The function has returned for the largest size it does not fall short of.
C20_Witness ==
    /\ call.op = "QuantizeTileSize"
    /\ call.args[1] = 1024
    /\ call.ret = 1024

\* C21: AABB::Intersects is symmetric: what a.Intersects(b) returned is what
\* b.Intersects(a) returns, for all boxes a and b, those that only touch on
\* a face, an edge or a corner and those with Min = Max included.
C21_IntersectsSymmetric ==
    call.op = "Intersects" =>
        call.ret = IntersectsBox(call.args[2], call.args[1])

\* Two distinct boxes that touch in one corner only, one of them a single
\* point: they intersect, in this order of the call.
C21_Witness ==
    /\ call.op = "Intersects"
    /\ call.ret
    /\ call.args[1].Min = call.args[1].Max
    /\ call.args[2].Min # call.args[2].Max
    /\ \A k \in Axes : call.args[1].Max[k] = call.args[2].Min[k]
    /\ \A k \in Axes : call.args[2].Max[k] > call.args[2].Min[k]

\* The cascade matrices and split depths of a GPU block are those of the
\* cascades and splits u.
HoldsCascadesOf(data, u) ==
    /\ Len(data.Cascades) = CSM_CASCADE_COUNT
    /\ Len(data.CascadeSplitDepths) = CSM_CASCADE_COUNT
    /\ \A c \in 1..CSM_CASCADE_COUNT :
          /\ data.Cascades[c].ViewProjection = u.Cascades[c].ViewProjectionMatrix
          /\ data.CascadeSplitDepths[c] = u.SplitDistances[c + 1]

\* C22: after every processed frame the cascade matrices and split depths in
\* the uniform buffer are the ones computed from the frame's camera, light
\* direction, maximum shadow distance, lambda and resolution: cascades of an
\* earlier frame, or cascades never computed, are not uploaded.
C22_UploadedCascadesAreOfThisFrame ==
    (call.op = "OnUpdate" /\ call.ret = 1) =>
        HoldsCascadesOf(ubo.CSM,
                        CsmUpdateOp(m_Camera, m_CurrentLight.Direction,
                                    m_Settings.MaxShadowDistance,
                                    m_Settings.CascadeSplitLambda, m_Resolution))

\* The commands cmd of the cascade pass of the log that carry cascade c.
CascadeCmds(log, cmd, c) ==
    {k \in CmdsOf(log, cmd, "csm") : log[k].index = c}

\* C23: after a processed frame on a scene with an enabled shadow-casting
\* directional light and at least one gathered caster, CascadesRendered is 4
\* and each of the 4 cascades was bound and cleared once, also a cascade no
\* caster was drawn into; after a processed frame without such a light or
\* without casters it is 0 and no cascade was bound.
C23_CascadesRenderedIsFourOrZero ==
    (call.op = "OnUpdate" /\ call.ret = 1) =>
        IF /\ FirstShadowLight(call.args[1].DirLights) > 0
           /\ GatherShadowCasters(call.args[1]) # <<>>
        THEN /\ m_Stats.CascadesRendered = 4
             /\ \A c \in 0..3 :
                   /\ Cardinality(CascadeCmds(glLog, "BindForCascade", c)) = 1
                   /\ Cardinality(CascadeCmds(glLog, "glClear", c)) = 1
        ELSE /\ m_Stats.CascadesRendered = 0
             /\ CmdsOf(glLog, "BindForCascade", "csm") = {}

\* A frame that rendered the 4 cascades, the last of them without any draw.
C23_Witness ==
    /\ call.op = "OnUpdate" /\ call.ret = 1
    /\ m_Stats.CascadesRendered = 4
    /\ CascadeCmds(glLog, "glDrawElements", 0) # {}
    /\ CascadeCmds(glLog, "glDrawElements", 3) = {}
    /\ CascadeCmds(glLog, "glClear", 3) # {}

\* Light k of the view is enabled and casts shadows, and no light before it
\* is both.
IsFirstCastingLight(lights, k) ==
    /\ k \in 1..Len(lights)
    /\ lights[k].Enabled /\ lights[k].CastShadows
    /\ \A j \in 1..(k - 1) : ~(lights[j].Enabled /\ lights[j].CastShadows)

\* The resizes of the CSM texture in the log.
CsmResizes(log) ==
    CmdsOf(log, "glTextureStorage3D", "csm")

\* C24: a processed frame takes the parameters of exactly one directional
\* light, the first of the view that is enabled and casts shadows, whatever
\* comes before or after it; the CSM is resized in the frame exactly when
\* that light's ShadowResolution differs from the resolution before the
\* frame, and after the frame the resolution is the light's.  Without such a
\* light the light parameters and the resolution stay as they were.
C24_FirstCastingLightIsUsed ==
    [][(call'.op = "OnUpdate" /\ call'.ret = 1)
       => LET lights == call'.args[1].DirLights
          IN  /\ \A k \in 1..Len(lights) :
                    IsFirstCastingLight(lights, k) =>
                        /\ m_CurrentLight'.Direction = lights[k].Direction
                        /\ m_CurrentLight'.ShadowBias = lights[k].ShadowBias
                        /\ m_CurrentLight'.NormalBias = lights[k].NormalBias
                        /\ m_CurrentLight'.ShadowSoftness = lights[k].ShadowSoftness
                        /\ m_Resolution' = lights[k].ShadowResolution
                        /\ csmStorage' = lights[k].ShadowResolution
                        /\ Cardinality(CsmResizes(glLog'))
                              = IF m_Resolution = lights[k].ShadowResolution THEN 0 ELSE 1
              /\ (\A k \in 1..Len(lights) : ~IsFirstCastingLight(lights, k)) =>
                    /\ m_CurrentLight' = m_CurrentLight
                    /\ m_Resolution' = m_Resolution
                    /\ CsmResizes(glLog') = {}]_vars

\* A frame on a view of four lights, the third being the first enabled
\* shadow-casting one: the CSM was resized to its resolution, which is not
\* the fourth light's.
C24_Witness ==
    /\ call.op = "OnUpdate" /\ call.ret = 1
    /\ Len(call.args[1].DirLights) = 4
    /\ IsFirstCastingLight(call.args[1].DirLights, 3)
    /\ call.args[1].DirLights[4].Enabled /\ call.args[1].DirLights[4].CastShadows
    /\ call.args[1].DirLights[4].ShadowResolution # m_Resolution
    /\ m_Resolution = call.args[1].DirLights[3].ShadowResolution
    /\ CsmResizes(glLog) # {}

\* C25: no operation of the atlas after its construction (AllocateTile,
\* FreeTile, FreeAllTiles, BeginFrame, BindForTile, ClearTile, Unbind) changes
\* the number of tiles, the X, Y or Size of a tile, or the size of the atlas:
\* only LightIndex and LastUsedFrame of the tiles and the current frame change.
C25_TileGeometryIsFixed ==
    [][/\ Len(m_Tiles') = Len(m_Tiles)
       /\ m_AtlasSize' = m_AtlasSize
       /\ \A k \in 1..Len(m_Tiles) :
             /\ m_Tiles'[k].X = m_Tiles[k].X
             /\ m_Tiles'[k].Y = m_Tiles[k].Y
             /\ m_Tiles'[k].Size = m_Tiles[k].Size
             /\ DOMAIN m_Tiles'[k] = {"X", "Y", "Size", "LightIndex", "LastUsedFrame"}]_vars

\* A four-tile atlas after allocations for both lights in frame 1, a tile
\* having been cleared last: owner and frame of its tiles have changed.
C25_Witness ==
    /\ call.op = "ClearTile"
    /\ ValidIndex(m_Tiles, call.args[1])
    /\ Len(m_Tiles) = 4
    /\ m_CurrentFrame = 1
    /\ \E j, k \in 1..Len(m_Tiles) :
          /\ m_Tiles[j].LightIndex = 0 /\ m_Tiles[j].LastUsedFrame = 1
          /\ m_Tiles[k].LightIndex = 1

\* The commands of the log that bind or unbind a framebuffer.
IsBinder(c) == IsBind(c) \/ IsUnbind(c)

\* Position of the last bind or unbind before command k of the log; 0 when
\* there is none.
LastBinderBefore(log, k) ==
    LET binders == {j \in 1..(k - 1) : IsBinder(log[j])}
    IN  IF binders = {} THEN 0 ELSE CHOOSE j \in binders : \A i \in binders : i <= j

\* The spot light (its shadow index) a command of the spot pass is issued for.
SpotLightOf(c) == IF c.cmd = "glDrawElements" THEN c.index ELSE c.arg

\* The tiles AllocateTile returned for spot light n in the frame of the log.
TilesAllocatedTo(log, n) ==
    {log[j].index : j \in {i \in CmdsOf(log, "AllocateTile", "spot") :
                              log[i].arg = n /\ log[i].index >= 0}}

\* C26: every clear and every draw of the spot pass is issued under a
\* BindForTile of the tile allocated to its light in this frame, with no bind
\* or unbind in between: the atlas framebuffer is bound, the scissor test is
\* enabled, and viewport and scissor rectangle are (X, Y, Size, Size) of that
\* tile.  BindForTile with an index out of range changes neither the GL state
\* nor the tiles.  After the spot pass, and between frames, the scissor test
\* is disabled and the default framebuffer bound.
C26_SpotDrawsStayInsideTheirTile ==
    /\ \A k \in 1..Len(glLog) :
          (glLog[k].target = "spot" /\ glLog[k].cmd \in {"glClear", "glDrawElements"}) =>
              LET j == LastBinderBefore(glLog, k)
              IN  /\ j > 0
                  /\ glLog[j].cmd = "BindForTile"
                  /\ TilesAllocatedTo(glLog, SpotLightOf(glLog[k])) = {glLog[j].index}
                  /\ ValidIndex(m_Tiles, glLog[j].index)
                  /\ LET g == BindForTileGL(InitialGL, m_Tiles, glLog[j].index)
                         tile == TileAt(m_Tiles, glLog[j].index)
                     IN  /\ g.Framebuffer = "atlas"
                         /\ g.ScissorTest
                         /\ g.Viewport = <<tile.X, tile.Y, tile.Size, tile.Size>>
                         /\ g.Scissor = <<tile.X, tile.Y, tile.Size, tile.Size>>
    /\ \A i \in {-1, Len(m_Tiles), Len(m_Tiles) + 1} :
          /\ BindForTileGL(gl, m_Tiles, i) = gl
          /\ BindForTileOp(m_Tiles, m_CurrentFrame, i) = m_Tiles
    /\ ~gl.ScissorTest
    /\ gl.Framebuffer = "default"
    /\ CmdsOf(glLog, "BindForTile", "spot") # {} =>
          /\ glLog[LastBinderBefore(glLog, Len(glLog) + 1)].cmd = "AtlasUnbind"

\* A spot pass that drew casters into the tiles of two lights, the tiles being
\* different ones.
C26_Witness ==
    /\ call.op = "OnUpdate" /\ call.ret = 1
    /\ \E j, k \in CmdsOf(glLog, "glDrawElements", "spot") :
          /\ glLog[j].index # glLog[k].index
          /\ TilesAllocatedTo(glLog, glLog[j].index)
                # TilesAllocatedTo(glLog, glLog[k].index)
    /\ ~gl.ScissorTest

\* X, Y and Size of a tile.
Geometry(tile) == <<tile.X, tile.Y, tile.Size>>

\* C27: FreeTile(i) with a valid index leaves tile i free with LightIndex -1
\* and LastUsedFrame 0 and every other tile as it was; FreeTile with a
\* negative or too large index changes no tile; FreeAllTiles leaves every
\* tile free, so that GetFreeTileCount is the number of tiles and
\* GetAllocatedTileCount is 0.  None of them changes the geometry of a tile,
\* the texture and framebuffer names of the atlas, or the GL state.
C27_FreeReleasesOwnershipOnly ==
    [][/\ call'.op = "FreeTile" =>
             LET i == call'.args[1]
             IN  IF ValidIndex(m_Tiles, i)
                 THEN /\ Len(m_Tiles') = Len(m_Tiles)
                      /\ TileAt(m_Tiles', i).LightIndex = -1
                      /\ TileAt(m_Tiles', i).LastUsedFrame = 0
                      /\ IsFree(TileAt(m_Tiles', i))
                      /\ \A k \in 1..Len(m_Tiles) : k # i + 1 => m_Tiles'[k] = m_Tiles[k]
                 ELSE m_Tiles' = m_Tiles
       /\ call'.op = "FreeAllTiles" =>
             /\ Len(m_Tiles') = Len(m_Tiles)
             /\ \A k \in 1..Len(m_Tiles') :
                   m_Tiles'[k].LightIndex = -1 /\ m_Tiles'[k].LastUsedFrame = 0
             /\ GetFreeTileCount(m_Tiles') = Len(m_Tiles')
             /\ GetAllocatedTileCount(m_Tiles') = 0
       /\ call'.op \in {"FreeTile", "FreeAllTiles"} =>
             /\ \A k \in 1..Len(m_Tiles) : Geometry(m_Tiles'[k]) = Geometry(m_Tiles[k])
             /\ atlasHandles' = atlasHandles
             /\ atlasHandles'.DepthTexture # 0 /\ atlasHandles'.Framebuffer # 0
             /\ m_AtlasSize' = m_AtlasSize
             /\ m_CurrentFrame' = m_CurrentFrame
             /\ gl' = gl]_vars

\* The last tile of a four-tile atlas was freed in frame 1 while another tile
\* is owned and was used in that frame.
C27_Witness ==
    /\ call.op = "FreeTile"
    /\ Len(m_Tiles) = 4
    /\ call.args[1] = 3
    /\ IsFree(TileAt(m_Tiles, 3))
    /\ m_CurrentFrame = 1
    /\ ~IsFree(TileAt(m_Tiles, 0)) /\ TileAt(m_Tiles, 0).LastUsedFrame = 1
    /\ GetAllocatedTileCount(m_Tiles) >= 2

\* The tile the last operation handed out or bound: the result of an
\* AllocateTile that succeeded, the argument of a BindForTile with a valid
\* index; NONE after any other operation.
TileJustUsed ==
    IF call.op = "AllocateTile" THEN call.ret
    ELSE IF call.op = "BindForTile" /\ ValidIndex(m_Tiles, call.args[1]) THEN call.args[1]
    ELSE NONE

\* C28 as stated: a tile that was allocated or bound is not returned by the
\* AllocateTile that follows it in the same frame.
C28_UsedTileNotHandedOutAgain ==
    [][(call'.op = "AllocateTile" /\ TileJustUsed # NONE /\ m_CurrentFrame >= 1)
       => call'.ret # TileJustUsed]_vars

\* C28, for tiles that are owned: AllocateTile returns a tile that is free or
\* was last used in an earlier frame, never a tile that a light owns and that
\* was allocated or bound in the current frame; in particular not the tile
\* the allocation before it returned, and not an owned tile bound just
\* before.  The tiles owned and used in one frame are therefore pairwise
\* distinct, and their rectangles disjoint.
C28_OwnedTileOfFrameNotHandedOutAgain ==
    [][(call'.op = "AllocateTile" /\ call'.ret # NONE)
       => /\ ValidIndex(m_Tiles, call'.ret)
          /\ \/ IsFree(TileAt(m_Tiles, call'.ret))
             \/ TileAt(m_Tiles, call'.ret).LastUsedFrame < m_CurrentFrame
          /\ (TileJustUsed # NONE /\ ~IsFree(TileAt(m_Tiles, TileJustUsed)))
                => call'.ret # TileJustUsed
          /\ \A j, k \in 1..Len(m_Tiles') :
                j # k => Disjoint(m_Tiles'[j], m_Tiles'[k])]_vars

\* Two allocations in a row in frame 1 of a four-tile atlas: the second has
\* returned another tile than the first, and both are owned and stamped 1.
C28_Witness ==
    /\ call.op = "AllocateTile"
    /\ call.ret > 0
    /\ Len(m_Tiles) = 4
    /\ m_CurrentFrame = 1
    /\ \E k \in 0..(call.ret - 1) :
          /\ ~IsFree(TileAt(m_Tiles, k))
          /\ TileAt(m_Tiles, k).LastUsedFrame = 1
    /\ TileAt(m_Tiles, call.ret).LastUsedFrame = 1

\* The tiles of the atlas that light index n owns.
TilesOwnedBy(tiles, n) == {i \in 0..(Len(tiles) - 1) : TileAt(tiles, i).LightIndex = n}

\* C29: at the end of every processed frame each light index owns at most
\* one tile of the atlas, and the number of owned tiles is at most the number
\* of spot shadows recorded in that frame, which is at most 16.
C29_OneTilePerShadowedLight ==
    (call.op = "OnUpdate" /\ call.ret = 1)
        => /\ \A n \in 0..(MAX_SHADOW_CASTING_SPOT - 1) :
                 Cardinality(TilesOwnedBy(m_Tiles, n)) <= 1
           /\ GetAllocatedTileCount(m_Tiles) <= m_SpotShadowCount
           /\ m_SpotShadowCount <= MAX_SHADOW_CASTING_SPOT

\* C30: OnUpdate only reads the settings: every field of m_Settings, the
\* CascadeSplitLambda among them, is after the call what it was before, and
\* when the frame computes cascades their split distances are the ones of
\* that lambda.
C30_OnUpdateOnlyReadsSettings ==
    [][call'.op = "OnUpdate"
       => /\ m_Settings' = m_Settings
          /\ (/\ call'.ret = 1
              /\ FirstShadowLight(call'.args[1].DirLights) # 0
              /\ m_ShadowCasters' # <<>>)
                => m_SplitDistances'
                     = CsmUpdateOp(m_Camera, m_CurrentLight'.Direction,
                                   m_Settings.MaxShadowDistance,
                                   m_Settings.CascadeSplitLambda,
                                   m_Resolution').SplitDistances]_vars

====
